---- MODULE Spec2Model ----
(***************************************************************************)
(* subtext: the HTTP payload parser of lib/index.js as a state machine.    *)
(* One Parser instance is modelled: its settings and request headers, the  *)
(* pipeline stages it attaches to the body, the once-latch around the      *)
(* caller's callback, the file writes it starts and the temp files they    *)
(* leave on disk, and the multipart aggregation closure (data,             *)
(* pendingFiles, nextId, closed, timer, listeners).                        *)
(***************************************************************************)
EXTENDS Integers, Sequences, FiniteSets, TLC

\* Bounds of the model
MaxEvents == 2          \* field/part events the multipart scanner emits
MaxBody == 2            \* bytes one stream (the body, or one part) delivers

Undefined == 0 - 1      \* an option or header that is not set (numeric ones)
Absent == ""            \* a header or string option that is not set

ParseModes == {"true", "false", "gunzip"}
Outputs == {"data", "stream", "file"}
MultipartSettings == {"undefined", "false", "file", "annotated"}
Names == {"x", "y"}
Chunks == 1..MaxBody

\* internals.decoders: the default content-encoding registry
DefaultDecoders == {"gzip", "deflate"}

VARIABLES
    settings,       \* options: parse, output, maxBytes, timeout, allow, multipart, override,
                    \* defaultContentType, decoders, maxParts, uploads
    headers,        \* req.headers: contentLength, contentType, contentEncoding
    tap,            \* whether a tap stream was passed
    started,        \* read() has run
    result,         \* this.result: mime and payload
    delivered,      \* the calls of the caller's callback, in order
    latch,          \* Hoek.once around next: "raw" (not wrapped), "armed", "fired"
    stages,         \* the stages piped behind the body
    bodyRead,       \* some byte of the body has been consumed
    tapSeen,        \* the bytes the tap has observed: "nothing", "raw", "decoded"
    heard,          \* the 'error' events emitted on each stage of the pipes, in order
    source,         \* the request body: "open", "ended", "errored"
    decoder,        \* the decompression stream: "none", "active", "errored"
    reader,         \* Wreck.read of the top-level body: st, bytes
    timer,          \* the timeout timer: "none", "armed", "fired", "cleared"
    files,          \* the writeFile calls: st, bytes, err, name, ev, sent, written, reported
    disk,           \* indices of the temp files that exist
    aborted,        \* req emitted 'aborted'
    scanner,        \* Pez.Dispenser: "none", "active", "closed", "errored"
    listeners,      \* the part/field/close listeners are attached
    errListener,    \* dispenser.once('error', onError) is still attached
    data,           \* the Aggregate: name -> value
    pendingFiles,   \* ids of the file writes in flight
    nextId,
    closed,
    parts,          \* the parts the scanner emitted: name, st, sink, ev
    emitted         \* number of field/part events emitted

vars == <<settings, headers, tap, started, result, delivered, latch, stages,
          bodyRead, tapSeen, heard, source, decoder, reader, timer, files, disk, aborted,
          scanner, listeners, errListener, data, pendingFiles, nextId, closed,
          parts, emitted>>

pipelineVars == <<stages, bodyRead, tapSeen, heard, source, decoder, reader, timer, files, disk, aborted>>
multipartVars == <<scanner, listeners, errListener, data, pendingFiles, nextId, closed, parts, emitted>>
inputVars == <<settings, headers, tap>>

----------------------------------------------------------------------------
\* Errors and their HTTP status codes (Boom)

StatusOf(err) ==
    CASE err = "PayloadTooLarge" -> 413
      [] err = "UnsupportedMediaType" -> 415
      [] err = "InvalidMediaType" -> 400
      [] err = "InvalidCompressedPayload" -> 400
      [] err = "InvalidJson" -> 400
      [] err = "InvalidMultipartPayload" -> 400
      [] err = "Aborted" -> 400
      [] err = "Timeout" -> 408
      [] err = "PayloadStreamError" -> 500
      [] OTHER -> 0          \* a raw stream or filesystem error, not a Boom

\* One call of the caller's callback: next(err, this.result); raw tells whether the
\* error carries the body's bytes (err.raw)
Outcome(err, payload) == [err |-> err, payload |-> payload, raw |-> FALSE]

\* The error of object(), to which parse() attaches the bytes: err.raw = payload
WithRaw(outcome) == [outcome EXCEPT !.raw = TRUE]

\* Mutant: the wrapper lets every call through
OnceGuardOpen(lat) == TRUE

\* Hoek.once(next): calls after the first are dropped; an unwrapped next always calls through
OnceGuard(lat) == lat # "fired"

CallNext(s, err, payload) ==
    IF OnceGuard(s.latch)
    THEN [latch |-> IF s.latch = "armed" THEN "fired" ELSE s.latch,
          delivered |-> Append(s.delivered, Outcome(err, payload))]
    ELSE s

\* The calls of next one handler makes, in order
RECURSIVE CallAll(_, _, _)
CallAll(s, errs, payload) ==
    IF errs = <<>> THEN s
    ELSE CallAll(CallNext(s, Head(errs), payload), Tail(errs), payload)

Latch == [latch |-> latch, delivered |-> delivered]

\* next(err) with err.raw set: the call parse() makes when object() fails
CallNextRaw(s, err, payload) ==
    IF OnceGuard(s.latch)
    THEN [latch |-> IF s.latch = "armed" THEN "fired" ELSE s.latch,
          delivered |-> Append(s.delivered, WithRaw(Outcome(err, payload)))]
    ELSE s

Calls(errs, payload) ==
    LET s == CallAll(Latch, errs, payload)
    IN latch' = s.latch /\ delivered' = s.delivered

----------------------------------------------------------------------------
\* Content Gate (read)

\* Content.type(): a parse failure or the media type
ContentType(header) ==
    IF header = "bad" THEN [isBoom |-> TRUE, mime |-> Absent]
    ELSE [isBoom |-> FALSE, mime |-> header]

\* Mutant: the declared content-type wins over the override
EffectiveTypeHeaderFirst(s, h) ==
    IF h.contentType # Absent THEN h.contentType
    ELSE IF s.override # Absent THEN s.override
    ELSE IF s.defaultContentType # Absent THEN s.defaultContentType
    ELSE "application/octet-stream"

\* override || content-type || defaultContentType || 'application/octet-stream'
EffectiveType(s, h) ==
    IF s.override # Absent THEN s.override
    ELSE IF h.contentType # Absent THEN h.contentType
    ELSE IF s.defaultContentType # Absent THEN s.defaultContentType
    ELSE "application/octet-stream"

\* Mutant: the length check is off by one
TooLongOffByOne(s, h) ==
    /\ s.maxBytes # Undefined
    /\ h.contentLength # Undefined
    /\ h.contentLength > s.maxBytes + 1

TooLong(s, h) ==
    /\ s.maxBytes # Undefined
    /\ h.contentLength # Undefined
    /\ h.contentLength > s.maxBytes

\* String.prototype.indexOf: the first position of needle in hay, or -1
StringIndexOf(hay, needle) ==
    LET hits == { i \in 0..(Len(hay) - Len(needle)) : SubSeq(hay, i + 1, i + Len(needle)) = needle }
    IN IF hits = {} THEN 0 - 1 ELSE CHOOSE i \in hits : \A j \in hits : i <= j

\* Array.prototype.indexOf: the first position of an element equal to x, or -1
ArrayIndexOf(list, x) ==
    LET hits == { i \in DOMAIN list : list[i] = x }
    IN IF hits = {} THEN 0 - 1 ELSE (CHOOSE i \in hits : \A j \in hits : i <= j) - 1

\* allow.indexOf(mime), allow being a string or an array
AllowIndexOf(allow, mime) ==
    IF allow.isArray THEN ArrayIndexOf(allow.types, mime) ELSE StringIndexOf(allow.text, mime)

\* The truth value of settings.allow: undefined and the empty string are falsy, every
\* array is truthy
AllowTruthy(allow) == allow.given /\ (allow.isArray \/ allow.text # "")

NotAllowed(s, mime) == AllowTruthy(s.allow) /\ AllowIndexOf(s.allow, mime) = 0 - 1

\* Mutant: the media type is resolved before the length is checked
GateErrorTypeFirst(s, h) ==
    IF ContentType(EffectiveType(s, h)).isBoom THEN "InvalidMediaType"
    ELSE IF TooLong(s, h) THEN "PayloadTooLarge"
    ELSE IF NotAllowed(s, ContentType(EffectiveType(s, h)).mime) THEN "UnsupportedMediaType"
    ELSE Absent

\* The error the gate ends with, or Absent when the request passes
GateError(s, h) ==
    IF TooLong(s, h) THEN "PayloadTooLarge"
    ELSE IF ContentType(EffectiveType(s, h)).isBoom THEN "InvalidMediaType"
    ELSE IF NotAllowed(s, ContentType(EffectiveType(s, h)).mime) THEN "UnsupportedMediaType"
    ELSE Absent

\* this.result.mime once read() has returned
GateMime(s, h) ==
    IF TooLong(s, h) \/ ContentType(EffectiveType(s, h)).isBoom THEN Absent
    ELSE ContentType(EffectiveType(s, h)).mime

----------------------------------------------------------------------------
\* Decoder Pipeline Builder (parse, raw)

\* this.settings.decoders || internals.decoders: the names of the active registry
ActiveDecoders(s) == IF s.decoders.given THEN s.decoders.names ELSE DefaultDecoders

\* Mutant: options.decoders is not looked at
HasDecoderDefaultsOnly(s, h) ==
    /\ s.parse \in {"true", "gunzip"}
    /\ h.contentEncoding \in DefaultDecoders

\* decoders.hasOwnProperty(contentEncoding), in parse() and, with parse 'gunzip', in raw()
HasDecoder(s, h) ==
    /\ s.parse \in {"true", "gunzip"}
    /\ h.contentEncoding \in ActiveDecoders(s)

\* Mutant: the media type is dispatched on in every parse mode
IsMultipartAnyMode(s, h) == GateMime(s, h) = "multipart/form-data"

IsMultipart(s, h) == s.parse = "true" /\ GateMime(s, h) = "multipart/form-data"

\* The per-part output of multipart()
\* settings.multipart is "undefined", "false", "true", "object" (an object without an
\* output field) or the output an object names; this is its output property
OutputField(mp) == IF mp \in {"true", "object"} THEN "undefined" ELSE mp

PartOutput(s) ==
    IF s.multipart \in {"undefined", "false"} THEN s.output ELSE OutputField(s.multipart)

\* The stages parse() and raw() pipe behind the body, in the order of the pipes
FrontPipeline(s, h, t) ==
    (IF HasDecoder(s, h) THEN <<"decoder">> ELSE <<>>) \o (IF t THEN <<"tap">> ELSE <<>>)

\* The bytes that reach the tap: those of the body, or those the decoder puts out
TapSees(pipeline) ==
    IF \A k \in DOMAIN pipeline : pipeline[k] # "tap" THEN "nothing"
    ELSE IF \E j, k \in DOMAIN pipeline : j < k /\ pipeline[j] = "decoder" /\ pipeline[k] = "tap"
    THEN "decoded"
    ELSE "raw"

\* The stages parse() and raw() pipe in front of the output handling
FrontStages(s, h, t) ==
    (IF HasDecoder(s, h) THEN {"decoder"} ELSE {}) \cup (IF t THEN {"tap"} ELSE {})

\* Mutant: the multipart option is not looked at
SinkAlwaysScans(s, h) == IF IsMultipart(s, h) THEN "multipart" ELSE s.output

\* The way the body is consumed: "multipart", "disabled", "stream", "file", "data"
Sink(s, h) ==
    IF IsMultipart(s, h)
    THEN (IF s.multipart = "false" THEN "disabled" ELSE "multipart")
    ELSE s.output

\* The stages an 'error' event can be emitted on
Stages == {"source", "decoder", "tap", "counter", "file", "dispenser"}

\* The internals.pipe compositions of a request, from the body to the last stage:
\* parse() and raw() pipe the decoder and the tap, writeFile the counter and the file,
\* multipart() the dispenser; Wreck.read and output 'stream' take the tail as it is
Chain(s, h, t) ==
    <<"source">> \o FrontPipeline(s, h, t) \o
        (CASE Sink(s, h) = "file" -> <<"counter", "file">>
           [] Sink(s, h) = "multipart" -> <<"dispenser">>
           [] OTHER -> <<>>)

\* Mutant: the stages are piped with from.pipe(to) alone, which forwards no error
ForwardsNever(before) == FALSE

\* from.once('error', ...) of internals.pipe runs for the first error from emits:
\* before holds the errors from has emitted so far
Forwards(before) == before = <<>>

\* internals.pipe: the error from emits is emitted on to, and so on down the chain
RECURSIVE EmitAt(_, _, _, _)
EmitAt(h, chain, i, err) ==
    LET next == [h EXCEPT ![chain[i]] = Append(@, err)]
    IN IF i < Len(chain) /\ Forwards(h[chain[i]])
       THEN EmitAt(next, chain, i + 1, err)
       ELSE next

Emit(h, chain, from, err) ==
    EmitAt(h, chain, CHOOSE i \in DOMAIN chain : chain[i] = from, err)

\* One writeFile call: bytes is counter.bytes, sent the bytes its source delivered,
\* written the bytes that reached the file, reported the count its callback was given,
\* open the outcome of Fs.createWriteStream(path, { flags: 'wx' })
NewFile(name, ev) ==
    [st |-> "writing", bytes |-> 0, err |-> Absent, name |-> name, ev |-> ev,
     sent |-> 0, written |-> 0, reported |-> Undefined, open |-> "created"]

\* The exclusive create of the temp file. settings.uploads stands for the upload
\* directory and what it holds: "missing" (no such directory), "taken" (a file exists
\* at the path Hoek.uniqueFilename returns) or "tmpdir" (the path is free)
OpenOutcome(s) ==
    CASE s.uploads = "missing" -> "nodir"
      [] s.uploads = "taken" -> "exists"
      [] OTHER -> "created"

\* The files at the temp paths of a parse: i is the file write i created, 0 - i a file
\* that existed at the path of write i before the write began
DiskAfterOpen(d, i, open) ==
    CASE open = "created" -> d \cup {i}
      [] open = "exists" -> d \cup {0 - i}
      [] OTHER -> d

\* Fs.unlink(path): whatever file is at the path of write i is removed
DiskAfterUnlink(d, i) == d \ {i, 0 - i}

\* Mutant: the timeout option is never passed on
TimerOnNever(s) == FALSE

TimerOn(s) == s.timeout # Undefined /\ s.timeout > 0

----------------------------------------------------------------------------
\* The requests and options of the model

\* options.decoders: not given, or a registry of the caller's own
NoDecoders == [given |-> FALSE, names |-> {}]
OwnDecoders == [given |-> TRUE, names |-> {"special"}]

Setting(p, o, mb, to, al, mp) ==
    [parse |-> p, output |-> o, maxBytes |-> mb, timeout |-> to, allow |-> al,
     multipart |-> mp, override |-> Absent, defaultContentType |-> Absent,
     decoders |-> NoDecoders, maxParts |-> Undefined, uploads |-> "tmpdir"]

Header(cl, ct, ce) == [contentLength |-> cl, contentType |-> ct, contentEncoding |-> ce]

NoAllow == [given |-> FALSE, isArray |-> FALSE, types |-> <<>>, text |-> Absent]
JsonOnly == [given |-> TRUE, isArray |-> TRUE, types |-> <<"application/json">>, text |-> Absent]
JsonString == [given |-> TRUE, isArray |-> FALSE, types |-> <<>>, text |-> "application/json"]
EmptyList == [given |-> TRUE, isArray |-> TRUE, types |-> <<>>, text |-> Absent]
EmptyText == [given |-> TRUE, isArray |-> FALSE, types |-> <<>>, text |-> ""]
TextOrJson == [given |-> TRUE, isArray |-> TRUE, types |-> <<"text/plain", "application/json">>, text |-> Absent]

MaxBytesValues == {Undefined, MaxBody - 1}
TimeoutValues == {Undefined, 1}
Encodings == {Absent, "gzip"}

\* Requests that exercise the gate: every parse and output mode, with and without
\* decoder and tap, against each combination of the gate's inputs
GateInputs ==
    { <<Setting(p, o, mb, Undefined, al, "undefined"), Header(cl, ct, ce), t>> :
        p \in ParseModes, o \in Outputs, mb \in MaxBytesValues,
        al \in {NoAllow, JsonOnly}, cl \in {Undefined, MaxBody},
        ct \in {Absent, "bad", "application/json"},
        ce \in Encodings, t \in BOOLEAN }

\* Requests that exercise the resolution of the media type: each of override,
\* content-type and defaultContentType is unset, malformed, or a type of its own
TypeInputs ==
    { <<[Setting(p, "data", Undefined, Undefined, al, "undefined")
            EXCEPT !.override = ov, !.defaultContentType = dct],
        Header(Undefined, ct, Absent), FALSE>> :
        p \in {"true", "false"}, al \in {NoAllow, JsonOnly},
        ov \in {Absent, "bad", "text/plain"},
        ct \in {Absent, "bad", "application/json"},
        dct \in {Absent, "bad", "application/x-www-form-urlencoded"} }

\* Requests that exercise allow, given as a string or as an array, against a type
\* that is allowed, one whose text is part of the allowed type's, and another one
AllowInputs ==
    { <<Setting(p, o, Undefined, Undefined, al, "undefined"), Header(Undefined, ct, Absent), FALSE>> :
        p \in {"true", "false"}, o \in {"data", "stream"},
        al \in {JsonOnly, JsonString, TextOrJson},
        ct \in {"application/json", "application/js", "text/plain"} }

\* Requests whose allow option is an empty string or an empty list
EmptyAllowInputs ==
    { <<Setting(p, "data", Undefined, Undefined, al, "undefined"), Header(Undefined, ct, Absent), FALSE>> :
        p \in {"true", "false"}, al \in {EmptyList, EmptyText},
        ct \in {Absent, "application/json"} }

\* Requests that exercise the choice of the decoder: each parse mode and output, with
\* and without a registry of the caller's own, against an absent encoding, the two
\* default ones, the caller's one and an unknown one
DecoderInputs ==
    { <<[Setting(p, o, Undefined, Undefined, NoAllow, "undefined") EXCEPT !.decoders = d],
        Header(Undefined, "application/json", ce), FALSE>> :
        p \in ParseModes, o \in Outputs, d \in {NoDecoders, OwnDecoders},
        ce \in {Absent, "gzip", "deflate", "special", "br"} }

\* Requests that exercise the decoding of a buffered body: parse true and output
\* 'data' against media types of each class
ObjectTypes ==
    {Absent, "text/plain", "text/html", "application/json", "application/vnd.api+json",
     "application/x-www-form-urlencoded", "application/js", "image/png"}

ObjectInputs ==
    { <<Setting("true", "data", Undefined, Undefined, NoAllow, "undefined"),
        Header(Undefined, ct, Absent), FALSE>> : ct \in ObjectTypes }

\* The output and multipart options of a multipart request. The handlers tell only
\* file parts from buffered parts (and multipart disabled): one setting of each kind is
\* combined with every value of the other options, the remaining ones (the per-part
\* outputs stream and annotated, the multipart.output override) with the
\* other options unset
MainPartSettings == {<<"data", "undefined">>, <<"file", "undefined">>, <<"data", "false">>}
PartSettings ==
    { <<o, "undefined">> : o \in Outputs } \cup { <<"data", mp>> : mp \in MultipartSettings }

\* Requests that pass the gate: the options read after it vary, the ones only the
\* gate reads (content-length, allow) are left unset
PipelineInputs ==
    { <<Setting(p, o, mb, to, NoAllow, "undefined"), Header(Undefined, ct, ce), t>> :
        p \in ParseModes, o \in Outputs, mb \in MaxBytesValues, to \in TimeoutValues,
        ct \in {Absent, "application/json"}, ce \in Encodings, t \in BOOLEAN }
    \cup
    { <<Setting(p, o, Undefined, Undefined, NoAllow, "undefined"),
        Header(Undefined, ct, Absent), FALSE>> :
        p \in {"false", "gunzip"}, o \in Outputs, ct \in {"multipart/form-data", "image/png"} }

\* Multipart requests with output 'file' whose multipart option is true, an object
\* without an output field, or an object that names another output
OverrideInputs ==
    { <<Setting("true", "file", Undefined, Undefined, NoAllow, mp),
        Header(Undefined, "multipart/form-data", Absent), FALSE>> :
        mp \in {"true", "object", "data"} }

\* Requests that write files into an upload directory that does not exist, or where
\* the temp path is taken
UploadInputs ==
    { <<[Setting(p, "file", Undefined, Undefined, NoAllow, "undefined") EXCEPT !.uploads = up],
        Header(Undefined, ct, Absent), FALSE>> :
        p \in {"true", "false"}, up \in {"missing", "taken"},
        ct \in {"application/json", "multipart/form-data"} }

\* Multipart requests with the maxParts option set
PartsInputs ==
    { <<[Setting("true", o, Undefined, Undefined, NoAllow, "undefined") EXCEPT !.maxParts = 1],
        Header(Undefined, "multipart/form-data", Absent), FALSE>> : o \in {"data"} }

\* The limits of a multipart request: every pair of maxBytes and timeout without a
\* content encoding, and gzip with and without a timeout
MultipartLimits ==
    { l \in MaxBytesValues \X TimeoutValues \X Encodings :
        l[3] = Absent \/ l[1] = Undefined }

MultipartInputs ==
    { <<Setting("true", om[1], l[1], l[2], NoAllow, om[2]),
        Header(Undefined, "multipart/form-data", l[3]), FALSE>> :
        om \in MainPartSettings, l \in MultipartLimits }
    \cup
    { <<Setting("true", om[1], Undefined, Undefined, NoAllow, om[2]),
        Header(Undefined, "multipart/form-data", Absent), t>> :
        om \in PartSettings, t \in BOOLEAN }

Inputs ==
    GateInputs \cup TypeInputs \cup AllowInputs \cup DecoderInputs \cup ObjectInputs
        \cup PipelineInputs \cup MultipartInputs \cup PartsInputs
        \cup OverrideInputs \cup UploadInputs \cup EmptyAllowInputs

Init ==
    /\ \E in \in Inputs : settings = in[1] /\ headers = in[2] /\ tap = in[3]
    /\ started = FALSE
    /\ result = [mime |-> Absent, payload |-> "unset"]
    /\ delivered = <<>>
    /\ latch = "raw"
    /\ stages = {}
    /\ bodyRead = FALSE
    /\ tapSeen = "nothing"
    /\ heard = [st \in Stages |-> <<>>]
    /\ source = "open"
    /\ decoder = "none"
    /\ reader = [st |-> "none", bytes |-> 0]
    /\ timer = "none"
    /\ files = <<>>
    /\ disk = {}
    /\ aborted = FALSE
    /\ scanner = "none"
    /\ listeners = FALSE
    /\ errListener = FALSE
    /\ data = [n \in {} |-> 0]
    /\ pendingFiles = {}
    /\ nextId = 0
    /\ closed = FALSE
    /\ parts = <<>>
    /\ emitted = 0

----------------------------------------------------------------------------
\* exports.parse -> Parser.read -> parse | raw -> multipart | writeFile | Wreck.read

Read ==
    /\ ~started
    /\ started' = TRUE
    /\ UNCHANGED <<inputVars, bodyRead, tapSeen, heard, source, aborted, data, pendingFiles, nextId, closed, parts, emitted>>
    /\ LET err == GateError(settings, headers)
           mime == GateMime(settings, headers)
           sink == Sink(settings, headers)
           dec == HasDecoder(settings, headers)
           armed == [latch |-> IF dec \/ sink = "multipart" THEN "armed" ELSE latch,
                     delivered |-> delivered]
       IN IF err # Absent
          THEN /\ result' = [result EXCEPT !.mime = mime]
               /\ Calls(<<err>>, "unset")
               /\ UNCHANGED <<stages, decoder, reader, timer, files, disk, scanner, listeners, errListener>>
          ELSE /\ decoder' = IF dec THEN "active" ELSE "none"
               /\ stages' = FrontStages(settings, headers, tap) \cup
                            (CASE sink = "multipart" -> {"dispenser"}
                               [] sink = "file" -> {"counter", "file"}
                               [] sink = "data" -> {"reader"}
                               [] OTHER -> {})
               /\ result' = [mime |-> mime,
                             payload |-> IF sink = "stream" THEN "stream" ELSE "unset"]
               /\ LET s == CASE sink = "disabled" -> CallNext(armed, "UnsupportedMediaType", "unset")
                             [] sink = "stream" -> CallNext(armed, Absent, "stream")
                             [] OTHER -> armed
                  IN latch' = s.latch /\ delivered' = s.delivered
               /\ scanner' = IF sink = "multipart" THEN "active" ELSE "none"
               /\ listeners' = (sink = "multipart")
               /\ errListener' = (sink = "multipart")
               /\ timer' = IF sink \in {"multipart", "data"} /\ TimerOn(settings)
                           THEN "armed" ELSE "none"
               /\ files' = IF sink = "file"
                           THEN <<[NewFile(Absent, 0) EXCEPT !.open = OpenOutcome(settings)]>>
                           ELSE <<>>
               /\ disk' = IF sink = "file"
                          THEN DiskAfterOpen({}, 1, OpenOutcome(settings)) ELSE {}
               /\ reader' = IF sink = "data" THEN [st |-> "reading", bytes |-> 0] ELSE reader

----------------------------------------------------------------------------
\* Helpers of the asynchronous handlers

Passed == started /\ GateError(settings, headers) = Absent
Running(sink) == Passed /\ Sink(settings, headers) = sink

\* Mutant: the counter counts chunks
CounterTransformChunks(bytes, len, maxBytes) ==
    [bytes |-> bytes + 1,
     err |-> IF maxBytes # Undefined /\ bytes + 1 > maxBytes THEN "PayloadTooLarge" ELSE Absent]

\* Mutant: the limit itself is refused
CounterTransformStrict(bytes, len, maxBytes) ==
    [bytes |-> bytes + len,
     err |-> IF maxBytes # Undefined /\ bytes + len >= maxBytes THEN "PayloadTooLarge" ELSE Absent]

\* internals.Counter.prototype._transform
CounterTransform(bytes, len, maxBytes) ==
    [bytes |-> bytes + len,
     err |-> IF maxBytes # Undefined /\ bytes + len > maxBytes THEN "PayloadTooLarge" ELSE Absent]

\* Mutant: the listeners are dropped as soon as the source has ended
FinalizableWhileWriting(f) == f.st = "writing"

\* Mutant: a successful finalize leaves its listeners attached and can run again
FinalizableAfterSuccess(f) == f.st \in {"writing", "ended", "done"}

\* Mutant: finalize is not wrapped in Hoek.once and its listeners stay attached
FinalizableEveryCall(f) == TRUE

\* writeFile's finalize, guarded by Hoek.once: the listeners are attached while st is writing or ended
Finalizable(f) == f.st \in {"writing", "ended"}

Finalize(f, err) ==
    IF ~Finalizable(f) THEN f
    ELSE IF err = Absent THEN [f EXCEPT !.st = "done", !.reported = f.bytes]
    ELSE [f EXCEPT !.st = "unlinking", !.err = err]

\* A chunk passes the counter of a file write: it is written, or the counter's error
\* is forwarded to the file (internals.pipe) and finalizes the write
CounterWrite(f, len, maxBytes) ==
    LET c == CounterTransform(f.bytes, len, maxBytes)
        g == [f EXCEPT !.bytes = c.bytes, !.sent = @ + len]
    IN IF c.err = Absent
       THEN [g EXCEPT !.written = @ + len]
       ELSE Finalize(g, c.err)

\* The values of the Aggregate. ev is the number of the scanner event that carried the
\* value (0 for a list set() built); isArray is what Array.isArray() answers for it
\* str marks the string a field carries (the only primitive value set() is handed
\* here); every other value is an object
Scalar(ev) == [isArray |-> FALSE, items |-> <<>>, ev |-> ev, str |-> FALSE]
ArrayOf(items, ev) == [isArray |-> TRUE, items |-> items, ev |-> ev, str |-> FALSE]
Text(ev) == [isArray |-> FALSE, items |-> <<>>, ev |-> ev, str |-> TRUE]

\* The name whose assignment on a plain object runs the prototype setter, and the
\* entry of the model's Aggregate that stands for the object's prototype
ProtoName == "__proto__"
Prototype == "[[Prototype]]"

\* The value a buffered part inserts: with output 'data' a part whose JSON text is an
\* array is inserted as that array, every other part as a Buffer, string, object,
\* stream or annotation
PartValue(output, ev, jsonArray) ==
    IF output \notin {"stream", "annotated"} /\ jsonArray THEN ArrayOf(<<Scalar(ev)>>, ev) ELSE Scalar(ev)

\* set() of multipart()
Set(d, name, value) ==
    IF name = ProtoName
    THEN \* hasOwnProperty('__proto__') is false and the assignment runs the setter,
         \* which replaces the prototype by an object and ignores a primitive
         IF value.str THEN d
         ELSE [n \in DOMAIN d \cup {Prototype} |-> IF n = Prototype THEN value ELSE d[n]]
    ELSE IF name \notin DOMAIN d
    THEN [n \in DOMAIN d \cup {name} |-> IF n = name THEN value ELSE d[n]]
    ELSE IF d[name].isArray
    THEN [d EXCEPT ![name].items = Append(@, value)]
    ELSE [d EXCEPT ![name] = ArrayOf(<<d[name], value>>, 0)]

\* mime.match(/^text\/.+$/)
MatchesText(mime) == Len(mime) > 5 /\ SubSeq(mime, 1, 5) = "text/"

\* /^application\/(?:.+\+)?json$/.test(mime)
MatchesJson(mime) ==
    \/ mime = "application/json"
    \/ /\ Len(mime) > 17
       /\ SubSeq(mime, 1, 12) = "application/"
       /\ SubSeq(mime, Len(mime) - 4, Len(mime)) = "+json"

\* Mutant: every media type is handled as binary
ObjectAsBinary(mime, len, valid) ==
    [err |-> Absent, payload |-> IF len > 0 THEN "buffer" ELSE "null"]

\* Parser.prototype.object and internals.jsonParse: the decoded payload or the error
Object(mime, len, valid) ==
    CASE mime = "application/octet-stream" ->
            [err |-> Absent, payload |-> IF len > 0 THEN "buffer" ELSE "null"]
      [] MatchesText(mime) ->
            [err |-> Absent, payload |-> IF len > 0 THEN "text" ELSE "emptyString"]
      [] MatchesJson(mime) ->
            IF len = 0 THEN [err |-> Absent, payload |-> "null"]
            ELSE IF valid THEN [err |-> Absent, payload |-> "value"]
            ELSE [err |-> "InvalidJson", payload |-> "null"]
      [] mime = "application/x-www-form-urlencoded" ->
            [err |-> Absent, payload |-> IF len > 0 THEN "form" ELSE "emptyObject"]
      [] OTHER -> [err |-> "UnsupportedMediaType", payload |-> "null"]

\* Mutant: finalize leaves the timer running
ClearTimeoutSkipped(t) == t

\* clearTimeout(clientTimeoutId)
ClearTimeout(t) == IF t = "armed" THEN "cleared" ELSE t

\* finalize() of multipart(), called with the Aggregate d
MultipartFinalize(d) ==
    /\ timer' = ClearTimeout(timer)
    /\ listeners' = FALSE
    /\ errListener' = FALSE
    /\ result' = [result EXCEPT !.payload = "data"]
    /\ Calls(<<Absent>>, "data")

\* Mutant: onClose finalizes without looking at the pending writes
DeferCloseNever(pending) == FALSE

\* Mutant: onClose always waits for a write to finish
DeferCloseAlways(pending) == TRUE

\* onClose of multipart(): finalize, unless file writes are pending
DeferClose(pending) == pending # {}

\* Mutant: no error listener is attached to the dispenser
OnErrorDetached(attached) == <<>>

\* onError of multipart(), attached with dispenser.once('error'): the error it reports
OnError(attached) == IF attached THEN <<"InvalidMultipartPayload">> ELSE <<>>

\* Mutant: a part's failure is reported as a failure of the multipart format
PartErrorWrapped(err) == "InvalidMultipartPayload"

\* The error onPart's writeFile callback reports: next(err)
PartError(err) == err

\* The callback multipart's onPart passes to writeFile, for the write with id i - 1
PartWritten(i, f) ==
    /\ pendingFiles' = pendingFiles \ {i - 1}
    /\ UNCHANGED <<scanner, nextId, closed, parts, emitted>>
    /\ IF f.err # Absent
       THEN /\ Calls(<<PartError(f.err)>>, result.payload)
            /\ UNCHANGED <<data, timer, listeners, errListener, result>>
       ELSE /\ data' = Set(data, f.name, Scalar(f.ev))
            /\ IF closed /\ pendingFiles' = {}
               THEN MultipartFinalize(data')
               ELSE UNCHANGED <<timer, listeners, errListener, result, latch, delivered>>

\* The callback parse() and raw() pass to writeFile
BodyWritten(f) ==
    /\ UNCHANGED <<multipartVars, timer>>
    /\ IF f.err # Absent
       THEN Calls(<<f.err>>, result.payload) /\ UNCHANGED result
       ELSE result' = [result EXCEPT !.payload = "file"] /\ Calls(<<Absent>>, "file")

WriteCallback(i, f) ==
    IF Running("multipart") THEN PartWritten(i, f) ELSE BodyWritten(f)

\* The callback parse() and raw() pass to Wreck.read, with Wreck's once-guarded finish
ReadDone(err, valid) ==
    /\ reader' = [reader EXCEPT !.st = "done"]
    /\ timer' = ClearTimeout(timer)
    /\ IF err # Absent
       THEN Calls(<<err>>, result.payload) /\ UNCHANGED result
       ELSE IF settings.parse = "true"
       THEN LET o == Object(result.mime, reader'.bytes, valid)
            IN /\ result' = [result EXCEPT !.payload = o.payload]
               /\ IF o.err = Absent
                  THEN Calls(<<Absent>>, o.payload)
                  ELSE LET s == CallNextRaw(Latch, o.err, o.payload)
                       IN latch' = s.latch /\ delivered' = s.delivered
       ELSE /\ result' = [result EXCEPT !.payload = "buffer"]
            /\ Calls(<<Absent>>, "buffer")

----------------------------------------------------------------------------
\* The body source and the stages in front of the output

\* A chunk of the body reaches the counter of writeFile or the reader of Wreck.read
SourceChunk(len) ==
    /\ source = "open" /\ decoder # "errored"
    /\ bodyRead' = TRUE
    /\ tapSeen' = TapSees(FrontPipeline(settings, headers, tap))
    /\ UNCHANGED <<inputVars, started, stages, source, decoder, disk, aborted, multipartVars>>
    /\ \/ /\ Running("file") /\ files[1].st = "writing" /\ files[1].bytes + len <= MaxBody
          /\ files' = [files EXCEPT ![1] = CounterWrite(@, len, settings.maxBytes)]
          /\ heard' = IF CounterTransform(files[1].bytes, len, settings.maxBytes).err = Absent
                      THEN heard
                      ELSE Emit(heard, Chain(settings, headers, tap), "counter", "PayloadTooLarge")
          /\ UNCHANGED <<result, latch, delivered, reader, timer>>
       \/ /\ Running("data") /\ reader.st = "reading" /\ reader.bytes + len <= MaxBody
          /\ UNCHANGED heard
          /\ LET c == CounterTransform(reader.bytes, len, settings.maxBytes)
             IN IF c.err # Absent
                THEN ReadDone(c.err, TRUE)
                ELSE /\ reader' = [reader EXCEPT !.bytes = c.bytes]
                     /\ UNCHANGED <<result, latch, delivered, timer>>
          /\ UNCHANGED files

\* The body ends: the file's source ends, or the reader finishes and its payload is decoded
SourceEnd ==
    /\ Passed /\ source = "open"
    /\ Sink(settings, headers) \in {"file", "data", "stream", "disabled"}
    /\ source' = "ended"
    /\ UNCHANGED <<inputVars, started, stages, bodyRead, tapSeen, heard, decoder, disk, aborted, multipartVars>>
    /\ IF Running("file") /\ files[1].st = "writing" /\ decoder # "errored"
       THEN /\ files' = [files EXCEPT ![1].st = "ended"]
            /\ UNCHANGED <<result, latch, delivered, reader, timer>>
       ELSE IF Running("data") /\ reader.st = "reading" /\ decoder # "errored"
       THEN (\E valid \in BOOLEAN : ReadDone(Absent, valid)) /\ UNCHANGED files
       ELSE UNCHANGED <<result, latch, delivered, reader, timer, files>>

\* Mutant: the decoder has no error listener of its own
DecoderListenerMissing(dec) == <<>>

\* stream.once('error', ...) of parse() and raw(): what the decoder's listener reports
DecoderListener(dec) == IF dec = "active" THEN <<"InvalidCompressedPayload">> ELSE <<>>

\* The stage from emits err: the error travels down the pipes (internals.pipe),
\* through the decoder's own listener, to the last stage
ErrorChain(from, err) ==
    LET front == DecoderListener(decoder)
    IN /\ decoder' = IF decoder = "active" THEN "errored" ELSE decoder
       /\ heard' = Emit(heard, Chain(settings, headers, tap), from, err)
       /\ UNCHANGED <<inputVars, started, stages, bodyRead, tapSeen, disk, aborted,
                      listeners, data, pendingFiles, nextId, closed, parts, emitted>>
       /\ IF Running("file")
          THEN /\ files' = [files EXCEPT ![1] = Finalize(@, "StreamError")]
               /\ Calls(front, result.payload)
               /\ UNCHANGED <<result, reader, timer, scanner, errListener>>
          ELSE IF Running("data") /\ reader.st = "reading"
          THEN /\ reader' = [reader EXCEPT !.st = "done"]
               /\ timer' = ClearTimeout(timer)
               /\ Calls(front \o <<"PayloadStreamError">>, result.payload)
               /\ UNCHANGED <<result, files, scanner, errListener>>
          ELSE IF Running("multipart")
          THEN /\ scanner' = IF scanner = "active" THEN "errored" ELSE scanner
               /\ errListener' = FALSE
               /\ Calls(front \o OnError(errListener), result.payload)
               /\ UNCHANGED <<result, files, reader, timer>>
          ELSE /\ Calls(front, result.payload)
               /\ UNCHANGED <<result, files, reader, timer, scanner, errListener>>

SourceError ==
    /\ Passed /\ source = "open"
    /\ source' = "errored"
    /\ ErrorChain("source", "StreamError")

DecoderError ==
    /\ Passed /\ source = "open" /\ decoder = "active"
    /\ UNCHANGED source
    /\ ErrorChain("decoder", "ZlibError")

\* Wreck.read's timer
ReadTimeout ==
    /\ Running("data") /\ reader.st = "reading" /\ timer = "armed"
    /\ reader' = [reader EXCEPT !.st = "done"]
    /\ timer' = "fired"
    /\ Calls(<<"Timeout">>, result.payload)
    /\ UNCHANGED <<inputVars, started, result, stages, bodyRead, tapSeen, heard, source, decoder, files,
                   disk, aborted, multipartVars>>

----------------------------------------------------------------------------
\* writeFile

\* file 'close': finalize() without error
FileClose(i) ==
    /\ i \in DOMAIN files /\ files[i].st = "ended" /\ files[i].open = "created"
    /\ files' = [files EXCEPT ![i] = Finalize(@, Absent)]
    /\ WriteCallback(i, files'[i])
    /\ UNCHANGED <<inputVars, started, stages, bodyRead, tapSeen, heard, source, decoder, reader, disk, aborted>>

\* file 'error' of a failed open (EEXIST, ENOENT): finalize(err)
OpenFailed(i) ==
    /\ i \in DOMAIN files /\ files[i].open # "created" /\ Finalizable(files[i])
    /\ files' = [files EXCEPT ![i] = Finalize(@, "OpenError")]
    /\ UNCHANGED <<inputVars, started, result, delivered, latch, stages, bodyRead, tapSeen, heard,
                   source, decoder, reader, timer, disk, aborted, multipartVars>>

\* file 'error': finalize(err) destroys the handle and starts the unlink
FileError(i) ==
    /\ i \in DOMAIN files /\ Finalizable(files[i])
    /\ files' = [files EXCEPT ![i] = Finalize(@, "WriteError")]
    /\ UNCHANGED <<inputVars, started, result, delivered, latch, stages, bodyRead, tapSeen, heard, source,
                   decoder, reader, timer, disk, aborted, multipartVars>>

\* Wreck.read(source) listens for the 'close' of the stream it is given: that is the
\* request only when no stage is piped in between, internals.pipe forwarding 'error' alone
ReaderHearsClose(pipeline) == pipeline = <<>>

\* req 'aborted' and 'close': onAbort of every write in flight, and the end of a
\* buffered read of the request itself; the body delivers nothing more
Abort ==
    /\ Passed /\ source = "open" /\ ~aborted
    /\ aborted' = TRUE
    /\ source' = "aborted"
    /\ files' = [i \in DOMAIN files |-> Finalize(files[i], "Aborted")]
    /\ IF /\ Running("data") /\ reader.st = "reading"
          /\ ReaderHearsClose(FrontPipeline(settings, headers, tap))
       THEN /\ reader' = [reader EXCEPT !.st = "done"]
            /\ timer' = ClearTimeout(timer)
            /\ Calls(<<"PayloadStreamError">>, result.payload)
       ELSE UNCHANGED <<reader, timer, latch, delivered>>
    /\ UNCHANGED <<inputVars, started, result, stages, bodyRead, tapSeen, heard, decoder, disk, multipartVars>>

\* Fs.unlink's callback: the temp file is gone and the write reports its error
UnlinkDone(i) ==
    /\ i \in DOMAIN files /\ files[i].st = "unlinking"
    /\ files' = [files EXCEPT ![i].st = "failed"]
    /\ disk' = DiskAfterUnlink(disk, i)
    /\ WriteCallback(i, files'[i])
    /\ UNCHANGED <<inputVars, started, stages, bodyRead, tapSeen, heard, source, decoder, reader, aborted>>

----------------------------------------------------------------------------
\* multipart

ScannerReady ==
    /\ Running("multipart") /\ scanner = "active" /\ source = "open" /\ decoder # "errored"
    /\ \A k \in DOMAIN parts : parts[k].st # "streaming"

\* The names of the next event: the first one is "x" (names are interchangeable)
NameChoices == IF emitted = 0 THEN {"x"} ELSE Names

\* dispenser 'field'
\* The scanner accepts every part or field name
NameRejectedNever(name) == FALSE

\* The scanner refuses the headers of a part or field named '__proto__'
NameRejected(name) == name = ProtoName

\* dispenser 'error' for a refused name: no 'part' or 'field' event, onError
ScanRejected(name) ==
    /\ ScannerReady /\ NameRejected(name)
    /\ bodyRead' = TRUE
    /\ tapSeen' = TapSees(FrontPipeline(settings, headers, tap))
    /\ UNCHANGED heard
    /\ scanner' = "rejected"
    /\ errListener' = FALSE
    /\ Calls(OnError(errListener), result.payload)
    /\ UNCHANGED <<inputVars, started, result, stages, source, decoder, reader, timer, files,
                   disk, aborted, listeners, data, pendingFiles, nextId, closed, parts,
                   emitted>>

ScanField(name) ==
    /\ ScannerReady /\ emitted < MaxEvents /\ ~NameRejected(name)
    /\ emitted' = emitted + 1
    /\ bodyRead' = TRUE
    /\ tapSeen' = TapSees(FrontPipeline(settings, headers, tap))
    /\ UNCHANGED heard
    /\ data' = IF listeners THEN Set(data, name, Text(emitted')) ELSE data
    /\ UNCHANGED <<inputVars, started, result, delivered, latch, stages, source, decoder,
                   reader, timer, files, disk, aborted, scanner, listeners, errListener,
                   pendingFiles, nextId, closed, parts>>

\* A part the scanner emitted. mime, len and value are known once the part has been
\* buffered: its content type, the length of its content, the value handed to set()
NewPart(name, ev) ==
    [name |-> name, st |-> "streaming", ev |-> ev, settled |-> FALSE,
     mime |-> Absent, len |-> 0, value |-> "none"]

\* The content types of the parts: none, one the value decoder decodes, one it does not
PartTypes == {Absent, "application/json", "unknown/x"}

\* Mutant: a part with a content type is decoded even when it is empty
PartDecodedAlways(output, mime, len, valid) ==
    IF output = "stream" THEN "stream"
    ELSE IF mime = Absent THEN "buffer"
    ELSE LET o == Object(mime, len, valid)
         IN IF o.err # Absent THEN "buffer" ELSE o.payload

\* The value the Wreck.read callback of onPart builds from a part's bytes (inside the
\* annotation, with output 'annotated')
PartDecoded(output, mime, len, valid) ==
    IF output = "stream" THEN "stream"
    ELSE IF mime = Absent THEN "buffer"
    ELSE IF len = 0 THEN "emptyObject"
    ELSE LET o == Object(mime, len, valid)
         IN IF o.err # Absent THEN "buffer" ELSE o.payload

\* dispenser 'part': onPart starts a file write or buffers the part
ScanPart(name) ==
    /\ ScannerReady /\ emitted < MaxEvents /\ listeners /\ ~NameRejected(name)
    /\ emitted' = emitted + 1
    /\ bodyRead' = TRUE
    /\ tapSeen' = TapSees(FrontPipeline(settings, headers, tap))
    /\ UNCHANGED heard
    /\ parts' = Append(parts, NewPart(name, emitted'))
    /\ IF PartOutput(settings) = "file"
       THEN /\ files' = Append(files, [NewFile(name, emitted')
                                            EXCEPT !.open = OpenOutcome(settings)])
            /\ disk' = DiskAfterOpen(disk, Len(files) + 1, OpenOutcome(settings))
            /\ pendingFiles' = pendingFiles \cup {nextId}
            /\ nextId' = nextId + 1
       ELSE UNCHANGED <<files, disk, pendingFiles, nextId>>
    /\ UNCHANGED <<inputVars, started, result, delivered, latch, stages, source, decoder,
                   reader, timer, aborted, scanner, listeners, errListener, data, closed>>

\* A chunk of a part reaches the counter of its file write
PartChunk(i, len) ==
    /\ Running("multipart") /\ scanner = "active" /\ source = "open" /\ decoder # "errored"
    /\ i \in DOMAIN parts /\ parts[i].st = "streaming"
    /\ i \in DOMAIN files /\ files[i].st = "writing" /\ files[i].bytes + len <= MaxBody
    /\ files' = [files EXCEPT ![i] = CounterWrite(@, len, settings.maxBytes)]
    /\ UNCHANGED <<inputVars, started, result, delivered, latch, stages, bodyRead, tapSeen, heard, source,
                   decoder, reader, timer, disk, aborted, multipartVars>>

\* The part's stream ends at the next boundary
PartEnd(i) ==
    /\ Running("multipart") /\ scanner = "active" /\ source = "open" /\ decoder # "errored"
    /\ i \in DOMAIN parts /\ parts[i].st = "streaming"
    /\ parts' = [parts EXCEPT ![i].st = "ended"]
    /\ files' = IF i \in DOMAIN files /\ files[i].st = "writing"
                THEN [files EXCEPT ![i].st = "ended"] ELSE files
    /\ UNCHANGED <<inputVars, started, result, delivered, latch, stages, bodyRead, tapSeen, heard, source,
                   decoder, reader, timer, disk, aborted, scanner, listeners, errListener,
                   data, pendingFiles, nextId, closed, emitted>>

\* The callback onPart passes to Wreck.read(part): the buffered part is inserted
PartRead(i) ==
    /\ Running("multipart") /\ PartOutput(settings) # "file"
    /\ i \in DOMAIN parts /\ parts[i].st = "ended" /\ ~parts[i].settled
    /\ \E mime \in PartTypes, len \in 0..1, valid, jsonArray \in BOOLEAN :
          LET value == PartDecoded(PartOutput(settings), mime, len, valid)
          IN /\ jsonArray => value = "value"
             /\ parts' = [parts EXCEPT ![i].settled = TRUE, ![i].mime = mime,
                                       ![i].len = len, ![i].value = value]
             /\ data' = Set(data, parts[i].name,
                            PartValue(PartOutput(settings), parts[i].ev, jsonArray))
    /\ UNCHANGED <<inputVars, started, result, delivered, latch, pipelineVars, scanner,
                   listeners, errListener, pendingFiles, nextId, closed, emitted>>

\* dispenser 'close': onClose
ScanClose ==
    /\ ScannerReady
    /\ scanner' = "closed"
    /\ source' = "ended"
    /\ UNCHANGED <<inputVars, started, stages, bodyRead, tapSeen, heard, decoder, reader, files, disk,
                   aborted, data, pendingFiles, nextId, parts, emitted>>
    /\ IF ~listeners
       THEN UNCHANGED <<closed, timer, listeners, errListener, result, latch, delivered>>
       ELSE IF DeferClose(pendingFiles)
       THEN closed' = TRUE /\ UNCHANGED <<timer, listeners, errListener, result, latch, delivered>>
       ELSE UNCHANGED closed /\ MultipartFinalize(data)

\* The options multipart() hands to Pez.Dispenser, besides those of the content type
DispenserOptions(s) == [maxBytes |-> s.maxBytes]

\* dispenser 'error' (malformed framing, or more than maxBytes): onError
ScanError(cause) ==
    /\ Running("multipart") /\ scanner = "active" /\ source = "open" /\ decoder # "errored"
    /\ cause = "overflowed" => DispenserOptions(settings).maxBytes # Undefined
    /\ scanner' = cause
    /\ errListener' = FALSE
    /\ Calls(OnError(errListener), result.payload)
    /\ UNCHANGED <<inputVars, started, result, pipelineVars, listeners, data, pendingFiles,
                   nextId, closed, parts, emitted>>

\* The timer of multipart()
MultipartTimeout ==
    /\ Running("multipart") /\ timer = "armed"
    /\ timer' = "fired"
    /\ Calls(<<"Timeout">>, result.payload)
    /\ UNCHANGED <<inputVars, started, result, stages, bodyRead, tapSeen, heard, source, decoder, reader,
                   files, disk, aborted, multipartVars>>

----------------------------------------------------------------------------

Next ==
    \/ Read
    \/ \E len \in Chunks : SourceChunk(len)
    \/ SourceEnd
    \/ SourceError
    \/ DecoderError
    \/ ReadTimeout
    \/ \E i \in 1..MaxEvents : FileClose(i)
    \/ \E i \in 1..MaxEvents : FileError(i)
    \/ \E i \in 1..MaxEvents : OpenFailed(i)
    \/ Abort
    \/ \E i \in 1..MaxEvents : UnlinkDone(i)
    \/ \E n \in NameChoices \cup {ProtoName} : ScanField(n)
    \/ \E n \in NameChoices \cup {ProtoName} : ScanPart(n)
    \/ ScanRejected(ProtoName)
    \/ \E i \in 1..MaxEvents, len \in Chunks : PartChunk(i, len)
    \/ \E i \in 1..MaxEvents : PartEnd(i)
    \/ \E i \in 1..MaxEvents : PartRead(i)
    \/ ScanClose
    \/ \E cause \in {"errored", "overflowed"} : ScanError(cause)
    \/ MultipartTimeout

Spec == Init /\ [][Next]_vars

\* The callbacks the event loop runs once they are due: the first call, the timers,
\* the close of a file whose source ended, the error of a file that could not be
\* opened, the completion of an unlink, the completion of a part's buffering
Scheduled ==
    /\ WF_vars(Read)
    /\ WF_vars(ReadTimeout)
    /\ WF_vars(MultipartTimeout)
    /\ \A i \in 1..MaxEvents : WF_vars(FileClose(i))
    /\ \A i \in 1..MaxEvents : WF_vars(OpenFailed(i))
    /\ \A i \in 1..MaxEvents : WF_vars(UnlinkDone(i))
    /\ \A i \in 1..MaxEvents : WF_vars(PartRead(i))

\* The body is left free to stall: only the program's own callbacks are fair
StallSpec == Spec /\ Scheduled

\* The body ends, every part ends and the scanner closes, unless an error comes first
FairSpec ==
    /\ Spec
    /\ Scheduled
    /\ WF_vars(SourceEnd)
    /\ WF_vars(ScanClose)
    /\ \A i \in 1..MaxEvents : WF_vars(PartEnd(i))

----------------------------------------------------------------------------
\* Properties

Failed == delivered # <<>> /\ delivered[1].err # Absent
Succeeded == delivered # <<>> /\ delivered[1].err = Absent
InFlight(f) == f.st \in {"writing", "ended"}
PositiveTimeout == settings.timeout # Undefined /\ settings.timeout > 0
Delivers == Len(delivered') = Len(delivered) + 1
LastDelivered == delivered'[Len(delivered')]

\* C1: under every interleaving of decoder, source and scanner events, file write
\* completions and failures, timer expiry and client abort, the caller's callback is
\* invoked at most once
C1_AtMostOnce == Len(delivered) <= 1

\* A signal arrived after the latch had fired and was dropped: the decoder failed
\* and the timer expired, and the one outcome delivered is neither
C1_Witness ==
    /\ Len(delivered) = 1
    /\ latch = "fired"
    /\ decoder = "errored" /\ timer = "fired"
    /\ delivered[1].err \notin {"InvalidCompressedPayload", "Timeout"}

\* The scanner will never close or fail: the client went away while it was waiting for bytes
ScannerStalled == Running("multipart") /\ scanner = "active" /\ source = "aborted"

\* The buffered read will never end: the client went away, and the reader, fed by a
\* decoder or a tap, does not hear of it
ReaderStalled == Running("data") /\ reader.st = "reading" /\ source = "aborted"

\* C2: when the body ends or errors, the file writes close or error and the scanner
\* closes or errors, the parse ends up having delivered exactly one outcome
C2_ExactlyOne == <>[](Len(delivered) = 1 \/ ScannerStalled \/ ReaderStalled)

\* The outcome came from a finalize that waited for a file write
C2_Witness ==
    /\ Len(delivered) = 1 /\ Succeeded
    /\ Running("multipart") /\ closed /\ scanner = "closed" /\ pendingFiles = {}

\* C3: in non-multipart file output, an error reaches the caller only once the temp
\* file has been unlinked, whatever the failure source
C3_UnlinkedBeforeError == (Running("file") /\ Failed) => disk = {}

\* The parse failed because a part exceeded maxBytes, a part's write failed, or the
\* scanner saw more than maxBytes
SizeOrWriteFailure ==
    /\ Failed
    /\ \/ delivered[1].err \in {"PayloadTooLarge", "WriteError"}
       \/ delivered[1].err = "InvalidMultipartPayload" /\ scanner = "overflowed"

\* C4: in multipart parsing with file parts, once a size or write failure has been
\* reported no temp file of this parse is on disk
C4_NoFileAfterFailure ==
    (Running("multipart") /\ PartOutput(settings) = "file" /\ SizeOrWriteFailure) => disk = {}

\* C5: in multipart parsing with file parts, the expiry of the timer unwinds every
\* file write in flight (its handle is destroyed and its unlink is started)
C5_TimeoutUnwinds ==
    [][(Running("multipart") /\ timer = "armed" /\ timer' = "fired")
        => \A i \in DOMAIN files : InFlight(files[i]) => files'[i].st = "unlinking"]_vars

\* C6: a successful result of a multipart parse is delivered only in a step that
\* leaves no file write pending; a close that finds writes pending delivers nothing
\* and sets closed, and the successful completion of the last pending write then
\* delivers the Aggregate
C6_DeliveredWhenSettled ==
    [][/\ (Running("multipart") /\ Delivers /\ LastDelivered.err = Absent)
            => pendingFiles' = {}
       /\ (scanner = "active" /\ scanner' = "closed" /\ pendingFiles # {})
            => (closed' /\ delivered' = delivered)
       /\ (/\ closed /\ pendingFiles # {} /\ pendingFiles' = {} /\ latch # "fired"
           /\ \E i \in DOMAIN files : files[i].st = "ended" /\ files'[i].st = "done")
            => (Delivers /\ LastDelivered = Outcome(Absent, "data") /\ result'.payload = "data")
      ]_vars

\* Two parts of the same name were written, the first one finished last, and its
\* completion delivered the result
C6_Witness ==
    /\ Succeeded /\ closed /\ pendingFiles = {}
    /\ "x" \in DOMAIN data /\ data["x"].items = <<Scalar(2), Scalar(1)>>

\* C7: a declared content-length above maxBytes fails with 413 before anything is
\* attached to the body, in every parse and output mode
C7_TooLargeBeforeBody ==
    (/\ started
     /\ settings.maxBytes # Undefined /\ headers.contentLength # Undefined
     /\ headers.contentLength > settings.maxBytes)
    => /\ Len(delivered) = 1
       /\ StatusOf(delivered[1].err) = 413
       /\ delivered[1].payload = "unset"
       /\ stages = {} /\ ~bodyRead /\ decoder = "none"
       /\ reader.st = "none" /\ scanner = "none"
       /\ files = <<>> /\ disk = {}

\* The oversized request carried an encoding a decoder exists for, and a tap
C7_Witness ==
    /\ started /\ Failed /\ delivered[1].err = "PayloadTooLarge"
    /\ headers.contentEncoding = "gzip" /\ tap /\ settings.output = "file"

\* C8: when the request aborts while a file write is in flight, that step alone
\* destroys the handle and starts the unlink, with no event of the write destination
\* needed; a write that has reported its failure left no file, and the parse has failed
C8_AbortCleansFile ==
    /\ [][(~aborted /\ aborted')
            => \A i \in DOMAIN files : InFlight(files[i])
                    => (files'[i].st = "unlinking" /\ files'[i].err = "Aborted")]_vars
    /\ [](\A i \in DOMAIN files : files[i].st = "failed" => (i \notin disk /\ Failed))
    /\ \A i \in 1..MaxEvents :
          (i \in DOMAIN files /\ files[i].err = "Aborted") ~> (i \notin disk /\ Failed)

\* The abort found a write that had already received bytes: its file was unlinked and
\* the error reported
C8_Witness ==
    /\ aborted /\ files # <<>>
    /\ files[1].st = "failed" /\ files[1].err = "Aborted" /\ files[1].bytes > 0
    /\ disk = {} /\ Failed

C10_MultipartTimeout ==
    /\ [](Running("multipart") /\ PositiveTimeout /\ result.payload # "data"
            => timer \in {"armed", "fired"})
    /\ [][(Running("multipart") /\ timer = "armed" /\ timer' = "fired" /\ delivered = <<>>)
            => (delivered' = <<Outcome("Timeout", "unset")>> /\ StatusOf("Timeout") = 408)]_vars
    /\ [](Running("multipart") /\ Succeeded => timer \in {"none", "cleared"})

\* The timer expired after the scanner had closed, while a file write was pending
C10_Witness ==
    /\ Running("multipart") /\ closed /\ scanner = "closed" /\ pendingFiles # {}
    /\ delivered = <<Outcome("Timeout", "unset")>>

\* The scanner emits an error in this step
ScannerErrs == Running("multipart") /\ scanner = "active" /\ scanner' \in {"errored", "overflowed"}

\* The error reached the scanner through the decoder, whose own listener ran first
DecoderFiredFirst == decoder = "active" /\ decoder' = "errored"

\* C11: an error the multipart scanner emits (malformed framing, or an upstream
\* error forwarded into it) is delivered as InvalidMultipartPayload (400), once,
\* unless the latch has already fired, in which case nothing is delivered
C11_ScannerErrorOnce ==
    /\ [][(ScannerErrs /\ latch # "fired" /\ ~DecoderFiredFirst)
            => /\ delivered' = <<Outcome("InvalidMultipartPayload", "unset")>>
               /\ StatusOf("InvalidMultipartPayload") = 400]_vars
    /\ [][(ScannerErrs /\ latch = "fired") => delivered' = delivered]_vars
    /\ [](Cardinality({k \in DOMAIN delivered : delivered[k].err = "InvalidMultipartPayload"}) <= 1)

\* An error of the body source was forwarded into the scanner after it had emitted events
C11_Witness ==
    /\ scanner = "errored" /\ source = "errored" /\ emitted > 0
    /\ delivered = <<Outcome("InvalidMultipartPayload", "unset")>>

\* The failed write of part i reports its error in this step, the latch being open
PartFailureReported(i) ==
    /\ Running("multipart") /\ latch # "fired"
    /\ i \in DOMAIN files /\ files[i].st = "unlinking" /\ files'[i].st = "failed"

\* C12 as stated: the failure of a part is reported as InvalidMultipartPayload (400)
C12_PartFailureAsMultipartError ==
    [][\A i \in 1..MaxEvents : PartFailureReported(i)
            => (Delivers /\ LastDelivered.err = "InvalidMultipartPayload"
                /\ StatusOf(LastDelivered.err) = 400)]_vars

\* C12 amended: the failure of a part's write is reported with the write's own error:
\* the filesystem error (of the open or of a write), PayloadTooLarge (413) for a part above maxBytes, the
\* abort error (400) for a client abort
C12_PartFailureUnchanged ==
    [][\A i \in 1..MaxEvents : PartFailureReported(i)
            => /\ delivered' = <<Outcome(files[i].err, "unset")>>
               /\ files[i].err \in {"WriteError", "OpenError", "PayloadTooLarge", "Aborted"}
               /\ files[i].err = "PayloadTooLarge" => StatusOf(LastDelivered.err) = 413
               /\ files[i].err = "Aborted" => StatusOf(LastDelivered.err) = 400
               /\ files[i].err \in {"WriteError", "OpenError"}
                    => StatusOf(LastDelivered.err) = 0]_vars

\* A part exceeded maxBytes: its file was unlinked and the overflow itself reported
C12_Witness ==
    /\ Running("multipart") /\ delivered = <<Outcome("PayloadTooLarge", "unset")>>
    /\ \E i \in DOMAIN files : files[i].st = "failed" /\ files[i].err = "PayloadTooLarge"

\* C13: once a multipart parse has reported an error, the scanner's listeners are
\* detached and the timer is cancelled, and no later event changes the Aggregate or
\* the result object handed to the caller
C13_FrozenAfterError ==
    /\ []((Running("multipart") /\ Failed) => (~listeners /\ timer # "armed"))
    /\ [][(Running("multipart") /\ Failed) => (data' = data /\ result' = result)]_vars

\* The values the scanner's events can insert
NewValues ==
    { Scalar(e) : e \in 1..MaxEvents } \cup { Text(e) : e \in 1..MaxEvents }
        \cup { ArrayOf(<<Scalar(e)>>, e) : e \in 1..MaxEvents }

\* This step inserts a value under name n
Inserted(n) == n \in DOMAIN data' /\ (n \notin DOMAIN data \/ data'[n] # data[n])

\* C14: the first value inserted under a name is stored as it is, the second one
\* turns the entry into the list of both, every further one is appended, whatever
\* the shape of the values; the other entries are unchanged and none is lost
C14_SetBuildsList ==
    [][/\ DOMAIN data \subseteq DOMAIN data'
       /\ \A n \in Names : Inserted(n) =>
            /\ \A m \in DOMAIN data \ {n} : data'[m] = data[m]
            /\ \E v \in NewValues :
                 data'[n] = IF n \notin DOMAIN data THEN v
                            ELSE IF data[n].ev > 0 THEN ArrayOf(<<data[n], v>>, 0)
                            ELSE [data[n] EXCEPT !.items = Append(@, v)]
      ]_vars

\* C15: the values of an entry are in the order in which the scanner emitted them
C15_ArrivalOrder ==
    \A n \in DOMAIN data : data[n].isArray =>
        \A a, b \in DOMAIN data[n].items :
            a < b => data[n].items[a].ev < data[n].items[b].ev

\* C16: with parse true, a multipart/form-data media type and multipart false, the
\* parse fails with UnsupportedMediaType (415) and no scanner is created or fed
C16_DisabledMultipart ==
    (/\ started /\ settings.parse = "true" /\ settings.multipart = "false"
     /\ result.mime = "multipart/form-data")
    => /\ delivered = <<Outcome("UnsupportedMediaType", "unset")>>
       /\ StatusOf(delivered[1].err) = 415
       /\ scanner = "none" /\ "dispenser" \notin stages
       /\ emitted = 0 /\ parts = <<>> /\ DOMAIN data = {}

\* The body was gzip-encoded and its decoder failed after the 415 had been delivered
C16_Witness ==
    /\ started /\ settings.parse = "true" /\ settings.multipart = "false"
    /\ result.mime = "multipart/form-data"
    /\ decoder = "errored" /\ Len(delivered) = 1

\* The declared length does not exceed the limit, so that the gate resolves the type
LengthAccepted ==
    ~(/\ settings.maxBytes # Undefined /\ headers.contentLength # Undefined
      /\ headers.contentLength > settings.maxBytes)

\* The highest-precedence media type text that is present
ChosenType ==
    CASE settings.override # Absent -> settings.override
      [] headers.contentType # Absent -> headers.contentType
      [] settings.defaultContentType # Absent -> settings.defaultContentType
      [] OTHER -> "application/octet-stream"

\* C17: the media type is resolved from override, else the content-type header, else
\* defaultContentType, else application/octet-stream; the reported mime is that of the
\* first one present, and when that one is malformed the parse fails with an invalid
\* content-type error (400) without looking at the later ones
C17_TypePrecedence ==
    (started /\ LengthAccepted) =>
        IF ChosenType = "bad"
        THEN /\ delivered = <<Outcome("InvalidMediaType", "unset")>>
             /\ StatusOf(delivered[1].err) = 400
             /\ result.mime = Absent
        ELSE result.mime = ChosenType

\* The override was malformed while the header and the default were well-formed
C17_Witness ==
    /\ started /\ Failed /\ delivered[1].err = "InvalidMediaType"
    /\ settings.override = "bad"
    /\ headers.contentType = "application/json"
    /\ settings.defaultContentType = "application/x-www-form-urlencoded"

\* The request went past the gate: a stage was attached to the body, or the body was
\* handed over as a stream
WentPastGate == stages # {} \/ result.payload # "unset" \/ Len(delivered) = 0

\* The resolved media type is the allowed type, respectively one of the allowed types
TypeIsAllowed ==
    IF settings.allow.isArray
    THEN \E k \in DOMAIN settings.allow.types : settings.allow.types[k] = result.mime
    ELSE settings.allow.text = result.mime

\* C18: with allow set, as one media type or as a list, a resolved media type passes
\* the gate when it equals the allowed type, respectively is in the list, and fails
\* with UnsupportedMediaType (415) when it does not
C18_AllowGate ==
    (started /\ settings.allow.given /\ result.mime # Absent) =>
        IF TypeIsAllowed
        THEN WentPastGate /\ (delivered # <<>> => delivered[1].err # "UnsupportedMediaType")
        ELSE /\ delivered = <<Outcome("UnsupportedMediaType", "unset")>>
             /\ StatusOf(delivered[1].err) = 415
             /\ stages = {} /\ result.payload = "unset"

\* Nothing was attached to the body and nothing was set on the result but its mime
Untouched ==
    /\ stages = {} /\ ~bodyRead /\ decoder = "none" /\ reader.st = "none"
    /\ timer = "none" /\ files = <<>> /\ disk = {}
    /\ scanner = "none" /\ ~listeners /\ ~errListener /\ latch = "raw"
    /\ result.payload = "unset"

\* C19: the gate checks the declared length, then resolves the media type, then
\* looks the type up in allow; the parse fails with the error of the first check that
\* fails (413, else invalid media type, else 415), and a failing gate leaves nothing
\* behind but the resolved media type on the result
C19_GateOrder ==
    started =>
        /\ ~LengthAccepted =>
              /\ delivered = <<Outcome("PayloadTooLarge", "unset")>>
              /\ StatusOf(delivered[1].err) = 413
              /\ result.mime = Absent /\ Untouched
        /\ (LengthAccepted /\ ChosenType = "bad") =>
              /\ delivered = <<Outcome("InvalidMediaType", "unset")>>
              /\ StatusOf(delivered[1].err) = 400
              /\ result.mime = Absent /\ Untouched
        /\ (LengthAccepted /\ ChosenType # "bad") => result.mime = ChosenType
        /\ (/\ LengthAccepted /\ ChosenType # "bad" /\ AllowTruthy(settings.allow)
            /\ AllowIndexOf(settings.allow, ChosenType) = 0 - 1) =>
              /\ delivered = <<Outcome("UnsupportedMediaType", "unset")>>
              /\ StatusOf(delivered[1].err) = 415
              /\ Untouched

\* The request was too long, its content-type malformed, and allow was set
C19_Witness ==
    /\ started /\ ~LengthAccepted /\ ChosenType = "bad" /\ settings.allow.given
    /\ delivered = <<Outcome("PayloadTooLarge", "unset")>>

\* The content-encoding names an entry of the registry in use
EncodingKnown ==
    IF settings.decoders.given
    THEN headers.contentEncoding \in settings.decoders.names
    ELSE headers.contentEncoding \in {"gzip", "deflate"}

\* C20: once the gate is passed, a decompression stage stands in front of the body
\* exactly when parse is true or 'gunzip' and the content-encoding names an entry of
\* the registry in use (options.decoders if given, else gzip and deflate); otherwise
\* no stage that changes the bytes is attached and no decoding error can arise
C20_DecoderExactlyWhen ==
    (started /\ GateError(settings, headers) = Absent) =>
        /\ ("decoder" \in stages) <=> (settings.parse \in {"true", "gunzip"} /\ EncodingKnown)
        /\ (decoder # "none") <=> ("decoder" \in stages)
        /\ "decoder" \notin stages =>
              /\ stages \subseteq {"tap", "counter", "file", "reader", "dispenser"}
              /\ \A k \in DOMAIN delivered : delivered[k].err # "InvalidCompressedPayload"

\* A body in the caller's own encoding was decoded with parse 'gunzip' and delivered
C20_Witness ==
    /\ started /\ settings.parse = "gunzip" /\ settings.decoders.given
    /\ headers.contentEncoding = "special" /\ "decoder" \in stages
    /\ Succeeded /\ result.payload = "buffer" /\ reader.bytes > 0

\* C21: when the decompression stage emits an error and the latch has not fired, the
\* caller receives InvalidCompressedPayload (400), and nothing the stages behind the
\* decoder report afterwards is delivered
C21_DecoderErrorWins ==
    /\ [][(decoder = "active" /\ decoder' = "errored" /\ latch # "fired")
            => /\ delivered' = <<Outcome("InvalidCompressedPayload", "unset")>>
               /\ StatusOf("InvalidCompressedPayload") = 400]_vars
    /\ []((delivered # <<>> /\ delivered[1].err = "InvalidCompressedPayload")
            => Len(delivered) = 1)

\* The decoder failed under a buffered read: the read's own failure was dropped
C21_Witness ==
    /\ Running("data") /\ decoder = "errored" /\ reader.st = "done"
    /\ delivered = <<Outcome("InvalidCompressedPayload", "unset")>>

\* C22: a tap observes the bytes of the body as they leave the body source, the
\* still-compressed ones when a decoder is active
C22_TapSeesRawBody == (tap /\ bodyRead) => tapSeen = "raw"

\* What a buffered read without a tap delivers when the client goes away
TaplessAbortOutcome ==
    IF ReaderHearsClose(FrontPipeline(settings, headers, FALSE))
    THEN Append(delivered, Outcome("PayloadStreamError", "unset"))
    ELSE delivered

\* C23: a tap that passes every chunk on does not change the outcome; where the
\* handling of an event depends on what is piped behind the body - the client going
\* away during a buffered read - the parse with a tap delivers what the parse
\* without one delivers
C23_TapKeepsOutcome ==
    [][(tap /\ ~aborted /\ aborted' /\ Running("data") /\ reader.st = "reading")
            => delivered' = TaplessAbortOutcome]_vars

\* The class of the resolved media type, for the media types of the model
MimeClass ==
    CASE result.mime = "application/octet-stream" -> "binary"
      [] result.mime \in {"text/plain", "text/html"} -> "text"
      [] result.mime \in {"application/json", "application/vnd.api+json"} -> "json"
      [] result.mime = "application/x-www-form-urlencoded" -> "form"
      [] OTHER -> "other"

\* The buffered read ended with the whole body and its outcome is that of the decoding
Decoded ==
    /\ Running("data") /\ settings.parse = "true" /\ reader.st = "done"
    /\ delivered # <<>>
    /\ delivered[1].err \notin
         {"PayloadTooLarge", "Timeout", "PayloadStreamError", "InvalidCompressedPayload"}

\* C24: with parse true and output data the payload of a non-multipart body follows
\* from the class of the media type: the buffer (null when empty) for
\* application/octet-stream, the string (empty when empty) for text/*, the parsed
\* value (null when empty, a 400 error when malformed) for JSON, the form decoder's
\* result (an empty mapping when empty) for form-urlencoded, and
\* UnsupportedMediaType (415) for every other type
C24_PayloadByClass ==
    Decoded =>
        LET o == delivered[1]
            empty == reader.bytes = 0
        IN /\ result.payload = o.payload
           /\ MimeClass = "binary" =>
                (o.err = Absent /\ o.payload = IF empty THEN "null" ELSE "buffer")
           /\ MimeClass = "text" =>
                (o.err = Absent /\ o.payload = IF empty THEN "emptyString" ELSE "text")
           /\ MimeClass = "json" =>
                IF empty THEN o.err = Absent /\ o.payload = "null"
                ELSE \/ o.err = Absent /\ o.payload = "value"
                     \/ o.err = "InvalidJson" /\ StatusOf(o.err) = 400 /\ o.payload = "null"
           /\ MimeClass = "form" =>
                (o.err = Absent /\ o.payload = IF empty THEN "emptyObject" ELSE "form")
           /\ MimeClass = "other" =>
                (o.err = "UnsupportedMediaType" /\ StatusOf(o.err) = 415)

\* A body of a +json type was parsed
C24_Witness ==
    /\ Decoded /\ result.mime = "application/vnd.api+json"
    /\ reader.bytes > 0 /\ delivered[1] = Outcome(Absent, "value")

\* C25: an error carries the body's bytes exactly when it is InvalidJson, and every
\* error is delivered with a result whose payload is null or unset
C25_RawOnlyOnInvalidJson ==
    \A k \in DOMAIN delivered : delivered[k].err # Absent =>
        /\ delivered[k].raw <=> delivered[k].err = "InvalidJson"
        /\ delivered[k].payload \in {"null", "unset"}

\* C26: when a file write succeeds, the byte count it reports equals the number of
\* bytes its source delivered and the number of bytes written to the file, for the
\* top-level body and for every part written as a file
C26_ReportedBytes ==
    \A i \in DOMAIN files : files[i].st = "done" =>
        /\ files[i].reported = files[i].sent
        /\ files[i].reported = files[i].written
        /\ i \in disk

\* Two parts were written as files, one of them in two chunks, and the parse succeeded
C26_Witness ==
    /\ Running("multipart") /\ Succeeded /\ Len(files) = 2
    /\ files[1].st = "done" /\ files[1].reported = MaxBody
    /\ files[2].st = "done" /\ files[2].reported < MaxBody

\* The source of write i delivers a chunk in this step
ChunkArrives(i) == i \in DOMAIN files /\ files'[i].sent > files[i].sent

\* C27: the counter of a file write holds the sum of the lengths of the chunks it
\* received; the first chunk that takes it above maxBytes fails the write with
\* PayloadTooLarge (413) in that step and is not passed on to the file; a total of
\* exactly maxBytes bytes is accepted; a top-level file body longer than maxBytes
\* fails with 413 though no content-length was declared
C27_CounterLimit ==
    /\ [][\A i \in 1..MaxEvents : ChunkArrives(i) =>
            LET len == files'[i].sent - files[i].sent
                over == settings.maxBytes # Undefined /\ files[i].bytes + len > settings.maxBytes
            IN /\ files'[i].bytes = files[i].bytes + len
               /\ over => /\ files'[i].st = "unlinking" /\ files'[i].err = "PayloadTooLarge"
                          /\ StatusOf(files'[i].err) = 413
                          /\ files'[i].written = files[i].written
               /\ ~over => /\ files'[i].st = files[i].st
                           /\ files'[i].written = files[i].written + len]_vars
    /\ [](\A i \in DOMAIN files :
            /\ files[i].bytes = files[i].sent
            /\ settings.maxBytes # Undefined => files[i].written <= settings.maxBytes)
    /\ []((/\ Running("file") /\ files[1].st = "failed" /\ files[1].err = "PayloadTooLarge"
           /\ decoder # "errored")
            => (delivered = <<Outcome("PayloadTooLarge", "unset")>> /\ disk = {}))

\* A body with no declared length was accepted up to maxBytes and refused beyond
C27_Witness ==
    /\ Running("file") /\ headers.contentLength = Undefined
    /\ settings.maxBytes # Undefined
    /\ files[1].written = settings.maxBytes /\ files[1].sent > settings.maxBytes
    /\ files[1].st = "failed" /\ delivered = <<Outcome("PayloadTooLarge", "unset")>>

\* C28: with maxParts set, a multipart body of more than maxParts parts is rejected
\* with an error and not aggregated
C28_MaxParts ==
    (Running("multipart") /\ settings.maxParts # Undefined /\ Len(parts) > settings.maxParts)
        => (~Succeeded /\ (scanner = "closed" => Failed))

\* The scanner met a part or field named '__proto__'
ProtoNameSeen == Running("multipart") /\ scanner = "active" /\ scanner' = "rejected"

RawMode == started /\ GateError(settings, headers) = Absent /\ settings.parse \in {"false", "gunzip"}

\* The payload raw() delivers for each output
RawPayload == CASE settings.output = "data" -> "buffer"
                [] settings.output = "stream" -> "stream"
                [] settings.output = "file" -> "file"

\* C30: with parse false or 'gunzip' no dispatch on the media type happens: whatever
\* the type, the multipart scanner and the value decoders are never invoked, only
\* 'gunzip' may decompress, and a delivered payload is the body as a buffer, a stream
\* or a file descriptor according to output
C30_NoDispatch ==
    RawMode =>
        /\ scanner = "none" /\ "dispenser" \notin stages /\ ~listeners
        /\ emitted = 0 /\ parts = <<>> /\ DOMAIN data = {}
        /\ settings.parse = "false" => decoder = "none" /\ "decoder" \notin stages
        /\ \A k \in DOMAIN delivered :
              /\ delivered[k].err \notin {"UnsupportedMediaType", "InvalidJson", "InvalidMultipartPayload"}
              /\ ~delivered[k].raw
              /\ delivered[k].err = Absent => delivered[k].payload = RawPayload
        /\ result.payload \in {"unset", RawPayload}

\* A multipart/form-data body was delivered whole as a buffer
C30_Witness ==
    /\ RawMode /\ result.mime = "multipart/form-data" /\ settings.output = "data"
    /\ reader.bytes > 0 /\ delivered = <<Outcome(Absent, "buffer")>>

\* Part k of the scanner has been inserted into the Aggregate: its buffering or its
\* file write has called set()
PartInserted(k) ==
    IF PartOutput(settings) = "file"
    THEN k \in DOMAIN files' /\ files'[k].st = "done" /\ (k - 1) \notin pendingFiles'
    ELSE parts'[k].settled

\* C32: at the moment a multipart parse delivers its successful result, every part the
\* scanner emitted has been inserted into the Aggregate, in every per-part output
\* mode: completion waits for outstanding file writes and for parts still buffering
C32_CompleteAtSuccess ==
    [][(Running("multipart") /\ Delivers /\ LastDelivered.err = Absent)
            => \A k \in DOMAIN parts' : PartInserted(k)]_vars

\* Part k was buffered in data or annotated mode
Buffered(k) == parts[k].settled /\ PartOutput(settings) \in {"data", "annotated"}

\* C33: a part buffered in data or annotated mode has the raw bytes as value when it
\* declares no content type, is not decoded when it declares one and is empty, and
\* otherwise has the decoded value, or the raw bytes when its type is not supported
\* or its JSON is malformed; inserting it never delivers an outcome
C33_PartValue ==
    /\ [](Running("multipart") =>
            \A k \in DOMAIN parts : Buffered(k) =>
                /\ parts[k].mime = Absent => parts[k].value = "buffer"
                /\ (parts[k].mime # Absent /\ parts[k].len = 0) => parts[k].value = "emptyObject"
                /\ (parts[k].mime = "application/json" /\ parts[k].len > 0)
                        => parts[k].value \in {"value", "buffer"}
                /\ (parts[k].mime = "unknown/x" /\ parts[k].len > 0) => parts[k].value = "buffer")
    /\ [][(\E k \in DOMAIN parts : ~parts[k].settled /\ parts'[k].settled)
            => delivered' = delivered]_vars

\* A part of an unsupported type kept its bytes and the parse succeeded, next to an
\* empty part that was not decoded
C33_Witness ==
    /\ Running("multipart") /\ Succeeded /\ Len(parts) >= 2
    /\ Buffered(1) /\ parts[1].mime = "unknown/x" /\ parts[1].len > 0 /\ parts[1].value = "buffer"
    /\ Buffered(2) /\ parts[2].mime = "application/json" /\ parts[2].len = 0

\* The per-part output the options ask for: multipart.output when an output is named,
\* the top-level output otherwise
RequestedPartOutput ==
    IF settings.multipart \in {"data", "stream", "file", "annotated"}
    THEN settings.multipart ELSE settings.output

\* C34: the per-part output of a multipart parse is multipart.output when the
\* multipart option names an output, and the top-level output when multipart is
\* absent, true or an object without an output: parts are written to files exactly
\* in file mode, and buffered parts are handed over as streams exactly in stream mode
C34_EffectivePartOutput ==
    (Running("multipart") /\ settings.multipart # "false") =>
        \A k \in DOMAIN parts :
            /\ RequestedPartOutput = "file" <=> k \in DOMAIN files
            /\ parts[k].settled => (RequestedPartOutput = "stream" <=> parts[k].value = "stream")

\* The last stage of the pipes: the stream handed over as payload with output 'stream'
TailStage == Chain(settings, headers, tap)[Len(Chain(settings, headers, tap))]

\* The decoder failed on its own, the body source being intact
DecoderFailed == decoder = "errored" /\ source = "open"

\* C35: with output 'stream' on a non-multipart body the callback succeeds at once with
\* the tail of the pipes as payload, before any byte is consumed; a later decoder
\* error is never delivered to the callback and is emitted on the payload stream as
\* InvalidCompressedPayload (400), with or without a tap behind the decoder
C35_StreamDecoderError ==
    /\ [](Running("stream") => delivered = <<Outcome(Absent, "stream")>>)
    /\ [][(Delivers /\ Sink(settings, headers) = "stream") => ~bodyRead']_vars
    /\ []((Running("stream") /\ DecoderFailed)
            => /\ heard[TailStage] = <<"InvalidCompressedPayload">>
               /\ StatusOf("InvalidCompressedPayload") = 400)

\* The stages of this request's pipes, in order
Piped == Chain(settings, headers, tap)

\* C40: for every pipe(from, to) of a request, the first error from emits is emitted
\* unchanged on to, once, and a later error of from is not forwarded; so once any
\* stage of source -> decoder -> tap -> counter -> file has emitted an error, the last
\* stage has heard one
C40_PipeForwardsFirstError ==
    /\ [][\A i \in 1..(Len(Piped) - 1) :
            LET from == Piped[i]
                to == Piped[i + 1]
            IN IF heard[from] = <<>> /\ heard'[from] # <<>>
               THEN /\ Len(heard'[from]) = 1
                    /\ heard'[to] = Append(heard[to], heard'[from][1])
               ELSE heard'[from] # heard[from] => heard'[to] = heard[to]]_vars
    /\ []((\E i \in DOMAIN Piped : heard[Piped[i]] # <<>>)
            => heard[Piped[Len(Piped)]] # <<>>)

\* An error of the body travelled through decoder, tap and counter to the file, after
\* the decoder's own error had done so: the second one stopped at the decoder
C40_Witness ==
    /\ Piped = <<"source", "decoder", "tap", "counter", "file">>
    /\ heard["source"] = <<"StreamError">>
    /\ heard["decoder"] = <<"ZlibError", "StreamError">>
    /\ heard["tap"] = <<"ZlibError">> /\ heard["counter"] = <<"ZlibError">>
    /\ heard["file"] = <<"ZlibError">>

\* C37: a failed file write deletes only a file it created itself: when the exclusive
\* create fails (the path exists already, or the upload directory is missing), no
\* file that existed before the call is removed
C37_ForeignFileKept ==
    [][\A i \in 1..MaxEvents : (0 - i) \in disk => (0 - i) \in disk']_vars

\* The write i has called its callback
Reported(f) == f.st \in {"done", "failed"}

\* C36: each file write reports one outcome, and a failed one reports the first error
\* that triggered it: a later error, abort or close, and the unlink, neither replace
\* that error nor produce a second report
C36_OneOutcomePerWrite ==
    [][\A i \in DOMAIN files :
        /\ Reported(files[i]) => files'[i] = files[i]
        /\ files[i].st = "unlinking"
              => /\ files'[i].err = files[i].err
                 /\ files'[i].st \in {"unlinking", "failed"}
        /\ (files[i].st = "unlinking" /\ files'[i].st = "failed" /\ latch # "fired")
              => (Delivers /\ LastDelivered.err = files[i].err)
      ]_vars

\* A write failed, the request aborted while the unlink was pending, and the write
\* error was the one reported
C36_Witness ==
    /\ Running("file") /\ aborted /\ files[1].st = "failed" /\ files[1].err = "WriteError"
    /\ delivered = <<Outcome("WriteError", "unset")>>

\* C38: once a file write has completed successfully, a later abort of the request or
\* error of the destination neither removes the file nor changes what was reported,
\* and the write has no listener left on the request
C38_SuccessIsFinal ==
    /\ [][\A i \in DOMAIN files : files[i].st = "done"
            => /\ files'[i] = files[i]
               /\ i \in disk /\ i \in disk'
               /\ (~aborted /\ aborted') => delivered' = delivered]_vars
    /\ [](\A i \in DOMAIN files : files[i].st = "done" => ~Finalizable(files[i]))

\* The request aborted after a part's file had been written: the file is still there
C38_Witness ==
    /\ Running("multipart") /\ aborted /\ 1 \in DOMAIN files
    /\ files[1].st = "done" /\ files[1].reported = files[1].bytes /\ 1 \in disk

\* settings.allow is absent, an empty string or an empty list
AllowIsEmpty ==
    \/ ~settings.allow.given
    \/ settings.allow.isArray /\ settings.allow.types = <<>>
    \/ ~settings.allow.isArray /\ settings.allow.text = ""

\* The gate of read() rejected the media type: a 415 delivered before any stage was
\* built, and not the 415 of a disabled multipart or of the value decoder
GateRejectedType ==
    /\ Failed /\ delivered[1].err = "UnsupportedMediaType"
    /\ reader.st = "none" /\ stages = {} /\ decoder = "none"
    /\ ~(settings.parse = "true" /\ result.mime = "multipart/form-data")

\* C39: the gate rejects a media type with UnsupportedMediaType only when allow is
\* non-empty: with allow absent, an empty string or an empty list, nothing is rejected
C39_EmptyAllowPasses == (started /\ AllowIsEmpty) => ~GateRejectedType

====
